---------------------------- MODULE Spec2Model ----------------------------
(***************************************************************************)
(* A model of gld_monitor.py: the asset price monitor.                     *)
(*                                                                         *)
(* Units.  Prices of the fetched series are integers in thousandths of a   *)
(* currency unit (mills), so that round(x, 2) has something to round.      *)
(* Rounded prices (current_price, recent_high, last_alert_high) are        *)
(* integers in hundredths.  drop_percent is a float in the code; here it   *)
(* is a record [kind, v]: kind "fin" with v in hundredths of a percent, or *)
(* one of the IEEE results "nan", "inf", "ninf" that numpy's float64       *)
(* division produces when the divisor is zero.  Binary floating-point      *)
(* representation error is not modelled: arithmetic is exact and round()   *)
(* rounds half to even, as numpy's round does.                             *)
(***************************************************************************)
EXTENDS Integers, Sequences, FiniteSets, TLC

(***************************************************************************)
(* Configuration (gld_monitor.py:20-27).                                   *)
(***************************************************************************)
\* The keys of the TICKERS table, in its order.
TICKERS == <<"GLD", "SLV", "COPX", "ICOP">>

\* DROP_THRESHOLD = 0.02, in hundredths.  DROP_THRESHOLD * 100 is then the
\* threshold in hundredths of a percent, the unit of drop_percent.
DROP_THRESHOLD == 2

(***************************************************************************)
(* Bounds of the model.                                                    *)
(***************************************************************************)
\* How many entries of the TICKERS table a run walks through: the runs of
\* the model watch the first NumTickers tickers of the table.
NumTickers == 2

Watched == SubSeq(TICKERS, 1, NumTickers)

TickerSet == {Watched[k] : k \in 1..Len(Watched)}

\* Longest price series handed to get_ticker_data when it is checked alone.
MaxDays == 2

\* Number of run slots; SpecOverlap lets that many runs of main() interleave.
MaxRuns == 2

Runs == 1..MaxRuns

(***************************************************************************)
(* Values.                                                                 *)
(***************************************************************************)
\* Python's None and a present number, for dict.get("last_alert_high").
None == [some |-> FALSE, v |-> 0]

Some(x) == [some |-> TRUE, v |-> x]

\* A float that is finite, and the three non-finite IEEE results.
Fin(x) == [kind |-> "fin", v |-> x]

NaN == [kind |-> "nan", v |-> 0]

PosInf == [kind |-> "inf", v |-> 0]

NegInf == [kind |-> "ninf", v |-> 0]

\* Python's a < b for a float a and a finite b: every comparison with NaN is
\* False.
FloatLt(a, b) ==
    CASE a.kind = "fin" -> a.v < b
      [] a.kind = "ninf" -> TRUE
      [] OTHER -> FALSE

\* Python's a >= b for a float a and a finite b.
FloatGe(a, b) ==
    CASE a.kind = "fin" -> a.v >= b
      [] a.kind = "inf" -> TRUE
      [] OTHER -> FALSE

\* n / d rounded to the nearest integer, ties to even; d > 0.
RoundHalfEven(n, d) ==
    LET q == n \div d
        r == n % d
    IN  IF 2 * r < d THEN q
        ELSE IF 2 * r > d THEN q + 1
        ELSE IF q % 2 = 0 THEN q ELSE q + 1

\* round(x, 2) of a price x given in mills: the result in hundredths.
Round2(x) == RoundHalfEven(x, 10)

\* round((recent_high - current_price) / recent_high * 100, 2) on float64:
\* the quotient in hundredths of a percent; a zero divisor gives inf, -inf or
\* nan (numpy warns and does not raise).
DropPercent(high, close) ==
    IF high = 0
    THEN IF high - close > 0 THEN PosInf
         ELSE IF high - close < 0 THEN NegInf
         ELSE NaN
    ELSE IF high > 0
         THEN Fin(RoundHalfEven((high - close) * 10000, high))
         ELSE Fin(RoundHalfEven((close - high) * 10000, 0 - high))

(***************************************************************************)
(* get_ticker_data (gld_monitor.py:79-102), after the fetch: hist is the   *)
(* series stock.history returned, a sequence of days [High, Close]; the    *)
(* date of a day is its index.                                             *)
(***************************************************************************)
RECURSIVE SeqMax(_)
\* hist["High"].max()
SeqMax(highs) ==
    IF Len(highs) = 1 THEN highs[1]
    ELSE LET m == SeqMax(Tail(highs))
         IN  IF highs[1] >= m THEN highs[1] ELSE m

Highs(hist) == [k \in 1..Len(hist) |-> hist[k].High]

\* A variant of IdxMax that takes the last index of the maximum.
IdxMax_Last(hist) ==
    LET m == SeqMax(Highs(hist))
    IN  CHOOSE k \in 1..Len(hist) :
            /\ hist[k].High = m
            /\ \A j \in (k + 1)..Len(hist) : hist[j].High # m

\* hist["High"].idxmax(): the first index at which the maximum occurs.
IdxMax(hist) ==
    LET m == SeqMax(Highs(hist))
    IN  CHOOSE k \in 1..Len(hist) :
            /\ hist[k].High = m
            /\ \A j \in 1..(k - 1) : hist[j].High # m

NoMetrics ==
    [ticker |-> "", current_price |-> 0, recent_high |-> 0, high_date |-> 0,
     drop_percent |-> Fin(0)]

\* The body of get_ticker_data on a fetched series: raises ValueError on an
\* empty series, otherwise returns the metrics dict.
get_ticker_data(ticker, hist) ==
    IF hist = <<>>
    THEN [raised |-> TRUE, data |-> NoMetrics]
    ELSE LET current_price == hist[Len(hist)].Close
             recent_high == SeqMax(Highs(hist))
             high_date == IdxMax(hist)
         IN  [raised |-> FALSE,
              data |-> [ticker |-> ticker,
                        current_price |-> Round2(current_price),
                        recent_high |-> Round2(recent_high),
                        high_date |-> high_date,
                        drop_percent |-> DropPercent(recent_high, current_price)]]

EmptyState == [t \in TickerSet |-> None]

\* A variant of should_send_alert without the check of last_alert_high.
should_send_alert_NoDedup(data, state) ==
    IF FloatLt(data.drop_percent, DROP_THRESHOLD * 100) THEN FALSE ELSE TRUE

(***************************************************************************)
(* should_send_alert (gld_monitor.py:186-200).  state maps every ticker to *)
(* what state.get(ticker, {}).get("last_alert_high") yields: None when the *)
(* ticker has no entry, Some(h) otherwise.                                 *)
(***************************************************************************)
should_send_alert(data, state) ==
    IF FloatLt(data.drop_percent, DROP_THRESHOLD * 100)
    THEN FALSE
    ELSE IF state[data.ticker] = Some(data.recent_high)
         THEN FALSE
         ELSE TRUE

\* load_state (gld_monitor.py:147-165): the stored document when the request
\* succeeds; {} when the gist is not configured, the request fails or the
\* content does not parse.  The JSON text of a document is modelled by the
\* document: json.loads(json.dumps(x)) returns the floats it was given.
load_state(doc, ok) == IF ok THEN doc ELSE EmptyState

\* A variant of save_state that merges: it writes the entries the run's dict
\* has and keeps the stored entry of a ticker the dict lacks.
save_state_Merge(doc, state, ok) ==
    IF ok
    THEN [t \in TickerSet |-> IF state[t] # None THEN state[t] ELSE doc[t]]
    ELSE doc

\* save_state (gld_monitor.py:168-183): the PATCH replaces the content of the
\* state file by json.dumps(state), the whole dict; when the gist is not
\* configured or the request fails the stored document stays as it is.
save_state(doc, state, ok) == IF ok THEN state ELSE doc

(***************************************************************************)
(* Variants of the loop body, for comparison with Iteration below.         *)
(***************************************************************************)
\* The except block is missing: the exception of a failed fetch leaves main.
Iteration_Abort(ticker, fetched, state, alerts) ==
    LET res == IF fetched.raised
               THEN [raised |-> TRUE, data |-> NoMetrics]
               ELSE get_ticker_data(ticker, fetched.hist)
        send == ~res.raised /\ should_send_alert(res.data, state)
    IN  [entry |-> [ticker |-> ticker, raised |-> res.raised,
                    hist |-> fetched.hist, data |-> res.data, alert |-> send],
         alerts |-> IF send THEN Append(alerts, res.data) ELSE alerts,
         uncaught |-> res.raised]

\* The `continue` of the except block is missing: the failed ticker falls
\* through to the policy and becomes a candidate.
Iteration_NoContinue(ticker, fetched, state, alerts) ==
    LET res == IF fetched.raised
               THEN [raised |-> TRUE, data |-> NoMetrics]
               ELSE get_ticker_data(ticker, fetched.hist)
        data == [res.data EXCEPT !.ticker = ticker]
        send == res.raised \/ should_send_alert(data, state)
    IN  [entry |-> [ticker |-> ticker, raised |-> res.raised,
                    hist |-> fetched.hist, data |-> res.data,
                    alert |-> ~res.raised /\ send],
         alerts |-> IF send THEN Append(alerts, data) ELSE alerts,
         uncaught |-> FALSE]

\* The result of should_send_alert is ignored: every ticker with metrics
\* becomes a candidate.
Iteration_AppendAll(ticker, fetched, state, alerts) ==
    LET res == IF fetched.raised
               THEN [raised |-> TRUE, data |-> NoMetrics]
               ELSE get_ticker_data(ticker, fetched.hist)
        send == ~res.raised /\ should_send_alert(res.data, state)
    IN  [entry |-> [ticker |-> ticker, raised |-> res.raised,
                    hist |-> fetched.hist, data |-> res.data, alert |-> send],
         alerts |-> IF res.raised THEN alerts ELSE Append(alerts, res.data),
         uncaught |-> FALSE]

(***************************************************************************)
(* main (gld_monitor.py:203-244), in pieces.                               *)
(***************************************************************************)
\* One iteration of the for loop (lines 208-226) for `ticker`, given what the
\* fetch did: fetched.raised when yfinance raised, else fetched.hist.
\* Returns what the iteration did (entry), the new alerts_to_send and
\* whether an exception left main.
Iteration(ticker, fetched, state, alerts) ==
    LET res == IF fetched.raised
               THEN [raised |-> TRUE, data |-> NoMetrics]
               ELSE get_ticker_data(ticker, fetched.hist)
    IN  IF res.raised
        THEN \* except Exception: log, print, continue
             [entry |-> [ticker |-> ticker, raised |-> TRUE,
                         hist |-> fetched.hist, data |-> NoMetrics,
                         alert |-> FALSE],
              alerts |-> alerts,
              uncaught |-> FALSE]
        ELSE LET send == should_send_alert(res.data, state)
             IN  [entry |-> [ticker |-> ticker, raised |-> FALSE,
                             hist |-> fetched.hist, data |-> res.data,
                             alert |-> send],
                  alerts |-> IF send THEN Append(alerts, res.data) ELSE alerts,
                  uncaught |-> FALSE]

\* A variant of AfterSend that records the alerts whatever the delivery did.
AfterSend_Always(sent) == "update"

\* Lines 233-242: where main goes after send_email_alert returned `sent`.
AfterSend(sent) == IF sent THEN "update" ELSE "done"

\* A variant of ApplyAlerts that builds the new state from the alerts alone,
\* dropping the entries of the other tickers.
ApplyAlerts_Rebuild(state, alerts) ==
    [t \in TickerSet |->
        IF \E k \in 1..Len(alerts) : alerts[k].ticker = t
        THEN Some(alerts[CHOOSE k \in 1..Len(alerts) : alerts[k].ticker = t].recent_high)
        ELSE None]

RECURSIVE ApplyAlerts(_, _)
\* Lines 234-239: state[data["ticker"]] = {"last_alert_high": recent_high, ...}
\* for every alert sent.  last_alert_time is written and never read; it is
\* left out of the entry.
ApplyAlerts(state, alerts) ==
    IF alerts = <<>> THEN state
    ELSE ApplyAlerts([state EXCEPT ![alerts[1].ticker] = Some(alerts[1].recent_high)],
                     Tail(alerts))

\* send_email_alert (gld_monitor.py:105-130): the message built from the
\* alerts: the tickers the subject names and the per-ticker lines of the body.
Notification(alerts) ==
    [subject |-> [k \in 1..Len(alerts) |-> alerts[k].ticker],
     body |-> alerts]

NoNotification == [subject |-> <<>>, body |-> <<>>]

(***************************************************************************)
(* State.                                                                  *)
(***************************************************************************)
VARIABLES
    store,          \* the state document in the gist
    pc,             \* per run: "idle", "loop", "update", "done", "crashed"
    state,          \* per run: main's local `state`
    idx,            \* per run: index in TICKERS of the next iteration
    alerts_to_send, \* per run: main's local list
    \* What each run did so far (history, reset when the run starts).
    storeBefore,    \* the stored document when the run started
    loaded,         \* the state as load_state returned it
    loadOK,         \* whether load_state got the stored document
    processed,      \* one entry per finished iteration
    sends,          \* calls of send_email_alert
    delivery,       \* "none", "ok", "failed"
    mail,           \* the notification handed to SMTP
    saves,          \* calls of save_state
    saveOK,         \* whether the last save_state replaced the document
    logFailed,      \* whether an append to the gist log failed
    stale,          \* whether another run saved since this run loaded
    \* History across runs.
    armed,          \* per ticker: the high last delivered and not since
                    \* followed by a different observed high, and whether
                    \* the store has been available since
    lastWriter,     \* the run whose save_state last replaced the document
    \* get_ticker_data and should_send_alert on their own.
    mpc, mhist, mprior, mres, msend

runVars == <<pc, state, idx, alerts_to_send, storeBefore, loaded, loadOK, processed, sends,
             delivery, mail, saves, saveOK, logFailed, stale>>

metricVars == <<mpc, mhist, mprior, mres, msend>>

vars == <<store, runVars, armed, lastWriter, metricVars>>

NotArmed == [high |-> None, trusted |-> FALSE]

RunInit ==
    /\ store = EmptyState
    /\ pc = [r \in Runs |-> "idle"]
    /\ state = [r \in Runs |-> EmptyState]
    /\ idx = [r \in Runs |-> 1]
    /\ alerts_to_send = [r \in Runs |-> <<>>]
    /\ storeBefore = [r \in Runs |-> EmptyState]
    /\ loaded = [r \in Runs |-> EmptyState]
    /\ loadOK = [r \in Runs |-> FALSE]
    /\ processed = [r \in Runs |-> <<>>]
    /\ sends = [r \in Runs |-> 0]
    /\ delivery = [r \in Runs |-> "none"]
    /\ mail = [r \in Runs |-> NoNotification]
    /\ saves = [r \in Runs |-> 0]
    /\ saveOK = [r \in Runs |-> FALSE]
    /\ logFailed = [r \in Runs |-> FALSE]
    /\ stale = [r \in Runs |-> FALSE]
    /\ armed = [t \in TickerSet |-> NotArmed]
    /\ lastWriter = 0

MetricsOff ==
    /\ mpc = "off"
    /\ mhist = <<>>
    /\ mprior = None
    /\ mres = [raised |-> FALSE, data |-> NoMetrics]
    /\ msend = FALSE

Init == RunInit /\ MetricsOff

(***************************************************************************)
(* What the collaborators can do.                                          *)
(***************************************************************************)
Day(h, c) == [High |-> h, Close |-> c]

FetchRaised == [raised |-> TRUE, hist |-> <<>>]

Fetched(hist) == [raised |-> FALSE, hist |-> hist]

\* Scenario C: high 100, close 99: a drop of 1.00 %.
SeriesWithin == <<Day(100000, 99000)>>

\* Scenario A: high 100, close 95: a drop of 5.00 %.
SeriesDrop == <<Day(100000, 95000)>>

\* A new, higher peak and a drop of exactly 2.00 % from it.
SeriesNewPeak == <<Day(100000, 99000), Day(110000, 107800)>>

\* A malformed series: the window high is zero.
SeriesZero == <<Day(0, 0)>>

\* What stock.history does in the runs of Spec: it raises, returns no rows
\* or returns one of the well-formed series.
FetchOutcomes ==
    {FetchRaised} \cup
    {Fetched(h) : h \in {<<>>, SeriesWithin, SeriesDrop, SeriesNewPeak}}

\* What it does in the runs of SpecFaults: it raises, returns a malformed
\* series or a well-formed one.
FaultOutcomes ==
    {FetchRaised} \cup {Fetched(h) : h \in {SeriesZero, SeriesDrop}}

\* What it does when runs interleave (SpecOverlap).
OverlapOutcomes == {Fetched(h) : h \in {SeriesWithin, SeriesDrop}}

(***************************************************************************)
(* The steps of a run r of main().                                         *)
(***************************************************************************)
Active(r) == pc[r] \in {"loop", "update"}

\* Lines 204-206: log the start, load the state, start with no alerts.
\* logOk: whether the append to the gist log worked; loadOk: whether
\* load_state got the stored document.
StartRun(r, logOk, loadOk) ==
    /\ pc[r] \in {"idle", "done", "crashed"}
    /\ pc' = [pc EXCEPT ![r] = "loop"]
    /\ state' = [state EXCEPT ![r] = load_state(store, loadOk)]
    /\ idx' = [idx EXCEPT ![r] = 1]
    /\ alerts_to_send' = [alerts_to_send EXCEPT ![r] = <<>>]
    /\ storeBefore' = [storeBefore EXCEPT ![r] = store]
    /\ loaded' = [loaded EXCEPT ![r] = load_state(store, loadOk)]
    /\ loadOK' = [loadOK EXCEPT ![r] = loadOk]
    /\ processed' = [processed EXCEPT ![r] = <<>>]
    /\ sends' = [sends EXCEPT ![r] = 0]
    /\ delivery' = [delivery EXCEPT ![r] = "none"]
    /\ mail' = [mail EXCEPT ![r] = NoNotification]
    /\ saves' = [saves EXCEPT ![r] = 0]
    /\ saveOK' = [saveOK EXCEPT ![r] = FALSE]
    /\ logFailed' = [logFailed EXCEPT ![r] = ~logOk]
    /\ stale' = [stale EXCEPT ![r] = FALSE]
    /\ armed' = IF loadOk THEN armed
                ELSE [t \in TickerSet |-> [armed[t] EXCEPT !.trusted = FALSE]]
    /\ UNCHANGED <<store, lastWriter, metricVars>>

\* Lines 208-226: one iteration of the loop.
ProcessTicker(r, fetched, logOk) ==
    /\ pc[r] = "loop"
    /\ idx[r] <= Len(Watched)
    /\ LET ticker == Watched[idx[r]]
           it == Iteration(ticker, fetched, state[r], alerts_to_send[r])
       IN  /\ pc' = [pc EXCEPT ![r] = IF it.uncaught THEN "crashed" ELSE "loop"]
           /\ idx' = [idx EXCEPT ![r] = idx[r] + 1]
           /\ alerts_to_send' = [alerts_to_send EXCEPT ![r] = it.alerts]
           /\ processed' = [processed EXCEPT ![r] = Append(processed[r], it.entry)]
           /\ armed' = IF /\ ~it.entry.raised
                          /\ armed[ticker].high # Some(it.entry.data.recent_high)
                       THEN [armed EXCEPT ![ticker] = NotArmed]
                       ELSE armed
    /\ logFailed' = [logFailed EXCEPT ![r] = logFailed[r] \/ ~logOk]
    /\ UNCHANGED <<store, state, storeBefore, loaded, loadOK, sends, delivery, mail, saves,
                   saveOK, stale, lastWriter, metricVars>>

\* Lines 230-233 and 241-242: some ticker qualified; build the notification
\* and hand it to SMTP.  sent: what send_email_alert returns.
SendAlert(r, sent, logOk) ==
    /\ pc[r] = "loop"
    /\ idx[r] > Len(Watched)
    /\ alerts_to_send[r] # <<>>
    /\ sends' = [sends EXCEPT ![r] = sends[r] + 1]
    /\ mail' = [mail EXCEPT ![r] = Notification(alerts_to_send[r])]
    /\ delivery' = [delivery EXCEPT ![r] = IF sent THEN "ok" ELSE "failed"]
    /\ pc' = [pc EXCEPT ![r] = AfterSend(sent)]
    /\ logFailed' = [logFailed EXCEPT ![r] = logFailed[r] \/ (~sent /\ ~logOk)]
    /\ UNCHANGED <<store, state, idx, alerts_to_send, storeBefore, loaded, loadOK, processed,
                   saves, saveOK, stale, armed, lastWriter, metricVars>>

\* Lines 243-244: no ticker qualified.
NoAlerts(r) ==
    /\ pc[r] = "loop"
    /\ idx[r] > Len(Watched)
    /\ alerts_to_send[r] = <<>>
    /\ pc' = [pc EXCEPT ![r] = "done"]
    /\ UNCHANGED <<store, state, idx, alerts_to_send, storeBefore, loaded, loadOK, processed,
                   sends, delivery, mail, saves, saveOK, logFailed, stale, armed,
                   lastWriter, metricVars>>

\* Lines 234-240: record the alerts in the state and save it.  saveOk:
\* whether the PATCH of save_state worked.
UpdateAndSave(r, saveOk, logOk) ==
    /\ pc[r] = "update"
    /\ state' = [state EXCEPT ![r] = ApplyAlerts(state[r], alerts_to_send[r])]
    /\ store' = save_state(store, state'[r], saveOk)
    /\ saves' = [saves EXCEPT ![r] = saves[r] + 1]
    /\ saveOK' = [saveOK EXCEPT ![r] = saveOk]
    /\ pc' = [pc EXCEPT ![r] = "done"]
    /\ logFailed' = [logFailed EXCEPT ![r] = logFailed[r] \/ ~logOk]
    /\ stale' = [q \in Runs |->
                    IF saveOk /\ q # r /\ Active(q) THEN TRUE ELSE stale[q]]
    /\ lastWriter' = IF saveOk THEN r ELSE lastWriter
    /\ armed' = [t \in TickerSet |->
                    IF \E k \in 1..Len(alerts_to_send[r]) :
                           alerts_to_send[r][k].ticker = t
                    THEN [high |-> state'[r][t], trusted |-> saveOk]
                    ELSE armed[t]]
    /\ UNCHANGED <<idx, alerts_to_send, storeBefore, loaded, loadOK, processed, sends,
                   delivery, mail, metricVars>>

(***************************************************************************)
(* Spec: runs one after the other (the design's single writer), in one run *)
(* slot.  State load, fetch, delivery and state save each succeed or fail; *)
(* the appends to the run log succeed.                                     *)
(***************************************************************************)
Start == \E loadOk \in BOOLEAN : StartRun(1, TRUE, loadOk)

Process == \E fetched \in FetchOutcomes : ProcessTicker(1, fetched, TRUE)

Send == \E sent \in BOOLEAN : SendAlert(1, sent, TRUE)

Skip == NoAlerts(1)

Save == \E saveOk \in BOOLEAN : UpdateAndSave(1, saveOk, TRUE)

Next == Start \/ Process \/ Send \/ Skip \/ Save

Spec == Init /\ [][Next]_vars

(***************************************************************************)
(* SpecFaults: runs one after the other in which every collaborator may    *)
(* fail, the run log included, and the provider may return a malformed     *)
(* series.  FairFaults adds that a started run keeps running: main() is    *)
(* one thread that executes its next statement until it returns.           *)
(***************************************************************************)
FStart ==
    \E logOk \in BOOLEAN, loadOk \in BOOLEAN : StartRun(1, logOk, loadOk)

FProcess ==
    \E fetched \in FaultOutcomes, logOk \in BOOLEAN :
        ProcessTicker(1, fetched, logOk)

FSend == \E sent \in BOOLEAN, logOk \in BOOLEAN : SendAlert(1, sent, logOk)

FSkip == NoAlerts(1)

FSave ==
    \E saveOk \in BOOLEAN, logOk \in BOOLEAN : UpdateAndSave(1, saveOk, logOk)

NextFaults == FStart \/ FProcess \/ FSend \/ FSkip \/ FSave

SpecFaults == Init /\ [][NextFaults]_vars

FairFaults ==
    SpecFaults /\ WF_vars(FProcess) /\ WF_vars(FSend) /\ WF_vars(FSkip)
               /\ WF_vars(FSave)

(***************************************************************************)
(* SpecOverlap: nothing in the code keeps two runs of main() apart; here   *)
(* any run slot may start at any time and the runs' steps interleave.      *)
(***************************************************************************)
OStart ==
    \E r \in Runs, loadOk \in BOOLEAN : StartRun(r, TRUE, loadOk)

OProcess ==
    \E r \in Runs, fetched \in OverlapOutcomes : ProcessTicker(r, fetched, TRUE)

OSend == \E r \in Runs, sent \in BOOLEAN : SendAlert(r, sent, TRUE)

OSkip == \E r \in Runs : NoAlerts(r)

OSave == \E r \in Runs, saveOk \in BOOLEAN : UpdateAndSave(r, saveOk, TRUE)

NextOverlap == OStart \/ OProcess \/ OSend \/ OSkip \/ OSave

SpecOverlap == Init /\ [][NextOverlap]_vars

(***************************************************************************)
(* SpecMetrics: get_ticker_data and should_send_alert on their own, as one *)
(* iteration of main's loop runs them: on every series of at most MaxDays  *)
(* days with prices among PricePoints and every prior last_alert_high      *)
(* among PriorHighs.                                                       *)
(***************************************************************************)
\* Prices in mills: negative, zero, around the 2 % threshold below 100, and
\* values that round(x, 2) changes.
PricePoints == {0 - 100000, 0, 95000, 97996, 98000, 100000, 100004}

Days == {Day(h, c) : h \in PricePoints, c \in PricePoints}

SeriesUpTo(n) == UNION {[1..k -> Days] : k \in 0..n}

\* Prior last_alert_high values, in hundredths.
PriorHighs == {None, Some(0), Some(10000)}

MetricsInputs ==
    /\ mpc = "fetched"
    /\ mhist \in SeriesUpTo(MaxDays)
    /\ mprior \in PriorHighs
    /\ mres = [raised |-> FALSE, data |-> NoMetrics]
    /\ msend = FALSE

\* Line 212: data = get_ticker_data(ticker, name, LOOKBACK_DAYS).
Compute ==
    /\ mpc = "fetched"
    /\ mres' = get_ticker_data(TICKERS[1], mhist)
    /\ mpc' = IF mres'.raised THEN "raised" ELSE "computed"
    /\ UNCHANGED <<mhist, mprior, msend>>
    /\ UNCHANGED <<store, runVars, armed, lastWriter>>

\* Line 225: should_send_alert(data, state).
Decide ==
    /\ mpc = "computed"
    /\ msend' = should_send_alert(mres.data, [EmptyState EXCEPT ![TICKERS[1]] = mprior])
    /\ mpc' = "decided"
    /\ UNCHANGED <<mhist, mprior, mres>>
    /\ UNCHANGED <<store, runVars, armed, lastWriter>>

NextMetrics == Compute \/ Decide

MetricsInit == RunInit /\ MetricsInputs

SpecMetrics == MetricsInit /\ [][NextMetrics]_vars

(***************************************************************************)
(* Vocabulary of the properties.                                           *)
(***************************************************************************)
Threshold == DROP_THRESHOLD * 100

\* The tickers a list of metrics records names, in its order.
TickersOf(list) == [k \in 1..Len(list) |-> list[k].ticker]

Alerted(r, t) ==
    \E k \in 1..Len(alerts_to_send[r]) : alerts_to_send[r][k].ticker = t

\* The entries of the finished iterations for which should_send_alert
\* returned true.
Qualified(r) == SelectSeq(processed[r], LAMBDA e : e.alert)

AllProcessed(r) ==
    /\ Len(processed[r]) = Len(Watched)
    /\ \A k \in 1..Len(Watched) : processed[r][k].ticker = Watched[k]

----------------------------------------------------------------------------
(***************************************************************************)
(* C1.  No alert is sent twice for the same (ticker, high).                *)
(***************************************************************************)
\* A run that has just delivered its notification (it is about to record the
\* alerts) and whose alert for alerts_to_send[r][k] repeats the high last
\* delivered for that ticker, no run having observed a different high since.
Repeats(r, k) ==
    armed[alerts_to_send[r][k].ticker].high = Some(alerts_to_send[r][k].recent_high)

----------------------------------------------------------------------------
(***************************************************************************)
(* C2.  should_send_alert as a function of the metrics and the state.      *)
(***************************************************************************)
\* C2: should_send_alert returns true exactly when drop_percent >= threshold
\* and the prior last_alert_high is absent or differs from recent_high, and
\* false when drop_percent < threshold.
C2_AlertExactlyWhen ==
    mpc = "decided" =>
        /\ msend <=> (/\ FloatGe(mres.data.drop_percent, Threshold)
                      /\ mprior # Some(mres.data.recent_high))
        /\ FloatLt(mres.data.drop_percent, Threshold) => ~msend

----------------------------------------------------------------------------
(***************************************************************************)
(* C3.  A failed delivery leaves the state alone and is retried.           *)
(***************************************************************************)
\* What C3 says of a run whose delivery failed, given the outcomes `oks` of
\* the next run's load_state it is said for: the run has ended without a call
\* of save_state, its state and the stored document are as they were when it
\* started, and the policy evaluated on the same metrics against the state
\* the next run loads is true again for every ticker of the notification.
RetriedUnder(r, oks) ==
    /\ pc[r] = "done"
    /\ saves[r] = 0
    /\ state[r] = loaded[r]
    /\ store = storeBefore[r]
    /\ \A k \in 1..Len(alerts_to_send[r]), ok \in oks :
           should_send_alert(alerts_to_send[r][k], load_state(store, ok))

----------------------------------------------------------------------------
(***************************************************************************)
(* C4.  What a run changes in its state.                                   *)
(***************************************************************************)
\* C4: an entry of the run's state differs from the loaded one only for a
\* ticker of a notification delivered in this run, and is then that run's
\* recent_high; once the alerts are recorded every alerted ticker has it;
\* save_state is called at most once, and never when no ticker qualified.
C4_OnlyAlertedEntriesChange ==
    \A r \in Runs :
        /\ \A t \in TickerSet :
               state[r][t] # loaded[r][t] =>
                   /\ delivery[r] = "ok"
                   /\ \E k \in 1..Len(alerts_to_send[r]) :
                          /\ alerts_to_send[r][k].ticker = t
                          /\ state[r][t] = Some(alerts_to_send[r][k].recent_high)
        /\ (pc[r] = "done" /\ delivery[r] = "ok") =>
               \A k \in 1..Len(alerts_to_send[r]) :
                   state[r][alerts_to_send[r][k].ticker]
                       = Some(alerts_to_send[r][k].recent_high)
        /\ saves[r] <= 1
        /\ saves[r] = 1 => (delivery[r] = "ok" /\ alerts_to_send[r] # <<>>)
        /\ (pc[r] = "done" /\ alerts_to_send[r] = <<>>) =>
               (saves[r] = 0 /\ state[r] = loaded[r])

\* A run recorded an alert for one ticker and left the other ticker's
\* existing entry as it was.
C4_OneChangedOneKept ==
    /\ pc[1] = "done"
    /\ delivery[1] = "ok"
    /\ \E t, u \in TickerSet :
           /\ Alerted(1, t) /\ state[1][t] # loaded[1][t]
           /\ ~Alerted(1, u) /\ loaded[1][u] # None /\ state[1][u] = loaded[1][u]

----------------------------------------------------------------------------
(***************************************************************************)
(* C5.  A ticker whose fetch or computation fails is skipped, alone.       *)
(***************************************************************************)
\* C5: no run aborts; the iterations done so far are those of the watched
\* tickers in the table's order; an iteration that failed added no alert
\* candidate and its ticker's state entry is the loaded one; an iteration
\* that did not fail evaluated the policy on its metrics; a run that has
\* ended has gone through every watched ticker.
C5_FailureIsolated ==
    \A r \in Runs :
        /\ pc[r] # "crashed"
        /\ Len(processed[r]) <= Len(Watched)
        /\ pc[r] = "loop" => Len(processed[r]) = idx[r] - 1
        /\ \A k \in 1..Len(processed[r]) :
               LET e == processed[r][k]
               IN  /\ e.ticker = Watched[k]
                   /\ e.raised =>
                          /\ ~Alerted(r, e.ticker)
                          /\ state[r][e.ticker] = loaded[r][e.ticker]
                   /\ ~e.raised =>
                          /\ e.alert = should_send_alert(e.data, loaded[r])
                          /\ e.alert <=> Alerted(r, e.ticker)
        /\ pc[r] \in {"update", "done"} => AllProcessed(r)

\* The first ticker's fetch failed and the second ticker was still evaluated
\* and alerted on, in a run that ended.
C5_SecondTickerAfterFailure ==
    /\ pc[1] = "done"
    /\ Len(processed[1]) >= 2
    /\ processed[1][1].raised
    /\ ~processed[1][2].raised
    /\ processed[1][2].alert
    /\ delivery[1] = "ok"

----------------------------------------------------------------------------
(***************************************************************************)
(* C6.  One consolidated notification per run, after the loop.             *)
(***************************************************************************)
\* C6: a run calls send_email_alert at most once and only after the loop went
\* through every watched ticker; the notification names exactly the tickers
\* for which should_send_alert returned true in this run, in the table's
\* order, with their metrics; a run that ended called it exactly when some
\* ticker qualified.
C6_OneNotification ==
    \A r \in Runs :
        /\ sends[r] <= 1
        /\ sends[r] = 0 => mail[r] = NoNotification
        /\ sends[r] = 1 =>
               /\ AllProcessed(r)
               /\ mail[r].subject # <<>>
               /\ mail[r].subject = TickersOf(Qualified(r))
               /\ mail[r].body = [k \in 1..Len(Qualified(r)) |-> Qualified(r)[k].data]
        /\ pc[r] \in {"update", "done"} =>
               (sends[r] = 1 <=> Qualified(r) # <<>>)

\* Scenario D: of two tickers one qualified and one did not, and the one
\* notification names the qualifying ticker only.
C6_OneOfTwoNamed ==
    /\ sends[1] = 1
    /\ Len(processed[1]) = 2
    /\ ~processed[1][1].raised /\ ~processed[1][1].alert
    /\ processed[1][2].alert
    /\ mail[1].subject = <<Watched[2]>>

----------------------------------------------------------------------------
(***************************************************************************)
(* C7.  A series with a non-positive high.                                 *)
(***************************************************************************)
\* C7: computing the metrics of a series whose window high is zero or
\* negative fails, so that no iteration hands such a record to
\* should_send_alert.
C7_NonPositiveHighFails ==
    \A r \in Runs :
        \A k \in 1..Len(processed[r]) :
            LET e == processed[r][k]
            IN  (e.hist # <<>> /\ SeqMax(Highs(e.hist)) <= 0) => e.raised

----------------------------------------------------------------------------
(***************************************************************************)
(* C8.  Every run ends normally.                                           *)
(***************************************************************************)
\* C8: whatever fails (a log append, the state load, a fetch, the delivery,
\* the state save), no exception leaves main, and a run that has started
\* reaches its end having gone through every watched ticker exactly once.
\* (The runs of SpecFaults all take place in run slot 1.)
C8_RunEndsNormally ==
    /\ [](\A r \in Runs : pc[r] # "crashed")
    /\ (pc[1] = "loop") ~> (pc[1] = "done" /\ AllProcessed(1))

\* A run ended after a failed log append, a failed state load, a failed fetch
\* and a failed delivery.
C8_EndedDespiteFailures ==
    /\ pc[1] = "done"
    /\ logFailed[1]
    /\ ~loadOK[1]
    /\ \E k \in 1..Len(processed[1]) : processed[1][k].raised
    /\ delivery[1] = "failed"

----------------------------------------------------------------------------
(***************************************************************************)
(* C9.  The metrics of a series.                                           *)
(***************************************************************************)
LastClose(hist) == hist[Len(hist)].Close

\* m is the maximum of the daily highs of hist.
IsWindowHigh(hist, m) ==
    /\ \E k \in 1..Len(hist) : hist[k].High = m
    /\ \A k \in 1..Len(hist) : hist[k].High <= m

\* d is the first day of hist whose high is m.
IsFirstDayOf(hist, m, d) ==
    /\ d \in 1..Len(hist)
    /\ hist[d].High = m
    /\ \A j \in 1..(d - 1) : hist[j].High # m

\* q (an integer of hundredths) is n / d rounded to two decimals: no other
\* number of hundredths is nearer to it; d > 0.
IsRounded2(q, n, d) ==
    /\ 2 * (q * d - 100 * n) <= d
    /\ 2 * (100 * n - q * d) <= d

\* C9 as stated: for a non-empty series with a positive high, current_price
\* is the last close, recent_high the maximum of the highs, high_date the
\* first day of that maximum and drop_percent is
\* (recent_high - current_price) / recent_high * 100 rounded to two decimals;
\* an empty series fails.  (Prices are in mills, the record's in hundredths.)
C9_MetricsOfSeries ==
    mpc \in {"raised", "computed", "decided"} =>
        /\ mres.raised <=> mhist = <<>>
        /\ (mhist # <<>> /\ SeqMax(Highs(mhist)) > 0) =>
               LET d == mres.data
               IN  /\ d.current_price * 10 = LastClose(mhist)
                   /\ IsWindowHigh(mhist, d.recent_high * 10)
                   /\ IsFirstDayOf(mhist, d.recent_high * 10, d.high_date)
                   /\ d.drop_percent.kind = "fin"
                   /\ IsRounded2(d.drop_percent.v,
                                 (d.recent_high - d.current_price) * 100,
                                 d.recent_high)

\* C9 as amended: current_price is the last close rounded to two decimals,
\* recent_high the maximum of the highs rounded to two decimals, high_date
\* the first day of that maximum, and drop_percent is
\* (maximum high - last close) / maximum high * 100, computed from the
\* unrounded prices and rounded to two decimals; an empty series fails.
C9_MetricsOfSeriesRounded ==
    mpc \in {"raised", "computed", "decided"} =>
        /\ mres.raised <=> mhist = <<>>
        /\ (mhist # <<>> /\ SeqMax(Highs(mhist)) > 0) =>
               LET d == mres.data
               IN  \E j \in 1..Len(mhist) :
                     LET m == mhist[j].High
                     IN
                       /\ IsWindowHigh(mhist, m)
                       /\ IsRounded2(d.current_price, LastClose(mhist), 1000)
                       /\ IsRounded2(d.recent_high, m, 1000)
                       /\ IsFirstDayOf(mhist, m, d.high_date)
                       /\ d.drop_percent.kind = "fin"
                       /\ IsRounded2(d.drop_percent.v,
                                     (m - LastClose(mhist)) * 100, m)

\* The metrics of a series whose maximum occurs on two days and whose prices
\* have a third decimal.
C9_TiedHighComputed ==
    /\ mpc = "computed"
    /\ Len(mhist) = 2
    /\ mhist[1].High = 100004 /\ mhist[2].High = 100004
    /\ mhist[2].Close = 97996
    /\ mres.data.high_date = 1
    /\ mres.data.drop_percent = Fin(201)

----------------------------------------------------------------------------
(***************************************************************************)
(* C10.  The stored state under overlapping runs.                          *)
(***************************************************************************)
\* The document a run's successful save leaves: the state it loaded with the
\* alerts of this run written over it.
SnapshotWithAlerts(r) ==
    [t \in TickerSet |->
        IF Alerted(r, t) THEN state[r][t] ELSE loaded[r][t]]

=============================================================================
